---- MODULE Spec2Model ----
(***************************************************************************)
(* A model of the social-media backend: the gRPC auth interceptors of the  *)
(* posts and groups services, the post/comment/like service over its       *)
(* store, and the friend service over its store.  Every store statement    *)
(* the services issue is one atomic step; a service call is a sequence of  *)
(* such steps run by a worker of the gRPC server.                          *)
(***************************************************************************)
EXTENDS Integers, Sequences, FiniteSets, TLC

VARIABLES
    \* ---- auth interceptor
    authPc,        \* "idle" | "received" | "answered"
    authReq,       \* the incoming unary call
    authResp,      \* what the interceptor did with it
    \* ---- posts service and its store
    posts,         \* post id -> row of table posts
    likes,         \* like id -> row of table likes
    comments,      \* comment id -> row of table comments
    ppc,           \* worker -> position inside the post call it runs
    pcall,         \* worker -> the call it runs and the locals it holds
    pret,          \* the response this step returned to its caller, if it returned one
    pcalls,        \* number of post calls started so far
    \* ---- friends service and its store
    requests,      \* request id -> row of table friend_requests
    friendships,   \* <<user, friend>> -> number of live rows of table friendships
    blocks,        \* <<user, blocked>> -> number of live rows of table blocked_users
    fpc,           \* worker -> position inside the friend call it runs
    fcall,         \* worker -> the call it runs and the locals it holds
    fret,          \* the response this step returned to its caller, if it returned one
    fcalls,        \* number of friend calls started so far
    rejectedOK,    \* ids of the requests RejectFriendRequest answered with success
    viaRequest,    \* ids of the requests on whose account a Friendship row was written
    \* ---- groups service and its store
    groups,        \* group id -> row of table groups
    members,       \* member id -> row of table group_members
    gposts,        \* group post id -> row of table group_posts
    gpc,           \* worker -> position inside the group call it runs
    gcall,         \* worker -> the call it runs and the locals it holds
    gret,          \* the response this step returned to its caller, if it returned one
    gcalls,        \* number of group calls started so far
    \* ---- pagination of the list operations
    lret,          \* the page arithmetic of the list call this step served, if it served one
    \* ---- visibility resolver
    vret,          \* the arguments and the answer of the resolver call this step made, if any
    \* ---- OAuth state tokens of one authService
    stateStore,    \* token -> time it was stored at, NoTime when absent from the map
    oclock,        \* the wall clock, in minutes
    opc,           \* worker -> position inside the login or callback it serves
    ocall,         \* worker -> the call it serves and the locals it holds
    oret,          \* the answer this step returned, if it returned one
    ocalls,        \* number of login and callback calls started so far
    issuedAt,      \* token -> time a login call issued it, NoTime when never issued
    accepts,       \* token -> number of ValidateStateToken calls that answered true
    presented,     \* tokens some ValidateStateToken call has answered for
    crashed        \* the process died of a concurrent map access

authVars   == <<authPc, authReq, authResp>>
postVars   == <<posts, likes, comments, ppc, pcall, pret, pcalls>>
friendVars == <<requests, friendships, blocks, fpc, fcall, fret, fcalls, rejectedOK,
                viaRequest>>
groupVars  == <<groups, members, gposts, gpc, gcall, gret, gcalls>>
listVars   == <<lret>>
visVars    == <<vret>>
oauthVars  == <<stateStore, oclock, opc, ocall, oret, ocalls, issuedAt, accepts,
                presented, crashed>>
vars       == <<authVars, postVars, friendVars, groupVars, listVars, visVars, oauthVars>>

Users == {"u1", "u2"}
Anonymous == ""

(***************************************************************************)
(* AUTH INTERCEPTOR (posts-api and groups-api)                             *)
(***************************************************************************)

PostMethods ==
    { "/posts.PostService/CreatePost", "/posts.PostService/GetPost",
      "/posts.PostService/GetPosts", "/posts.PostService/UpdatePost",
      "/posts.PostService/DeletePost", "/posts.PostService/AddComment",
      "/posts.PostService/GetComments", "/posts.PostService/DeleteComment",
      "/posts.PostService/LikePost", "/posts.PostService/UnlikePost" }

GroupMethods ==
    { "/groups.GroupService/CreateGroup", "/groups.GroupService/GetGroup",
      "/groups.GroupService/GetGroups", "/groups.GroupService/UpdateGroup",
      "/groups.GroupService/DeleteGroup", "/groups.GroupService/JoinGroup",
      "/groups.GroupService/LeaveGroup", "/groups.GroupService/GetGroupMembers",
      "/groups.GroupService/CreateGroupPost", "/groups.GroupService/GetGroupPosts" }

MethodsOf(service) == IF service = "posts" THEN PostMethods ELSE GroupMethods

\* The allow-list each interceptor is constructed with.
PostsPublicMethods ==
    { "/posts.PostService/GetPost", "/posts.PostService/GetPosts",
      "/posts.PostService/GetComments" }

GroupsPublicMethods == { "/groups.GroupService/GetGroups" }

publicMethods(service) ==
    IF service = "posts" THEN PostsPublicMethods ELSE GroupsPublicMethods

\* Clock values and expiry claims (seconds).
MaxTime == 2
Times == 0..MaxTime

\* The authorization header is <scheme><token>; a token carries its signing
\* algorithm, whether its signature verifies under the shared secret, an exp
\* claim (absent or a number) and a sub claim (a string or not).
Schemes == { "Bearer ", "bearer ", "Basic ", "" }
NoExp == -1

Tokens ==
    [ alg : {"HS256", "RS256"}, sigOK : BOOLEAN,
      exp : Times \cup {NoExp}, sub : Users \cup {"<not a string>"} ]

AuthRequests ==
    [ service : {"posts", "groups"}, method : PostMethods \cup GroupMethods,
      hasMetadata : BOOLEAN, hasHeader : BOOLEAN,
      scheme : Schemes, token : Tokens, now : Times ]

NoAuthReq ==
    [ service |-> "posts", method |-> "/posts.PostService/GetPost",
      hasMetadata |-> FALSE, hasHeader |-> FALSE, scheme |-> "",
      token |-> [alg |-> "HS256", sigOK |-> FALSE, exp |-> NoExp, sub |-> "u1"],
      now |-> 0 ]

NoAuthResp == [ handlerInvoked |-> FALSE, code |-> "", userID |-> "" ]

\* strings.HasPrefix(authHeader, "Bearer ")
HasBearerPrefix(scheme) == scheme = "Bearer "

\* jwt.Parse with the HMAC key function: the signing method must be HMAC, the
\* signature must verify, and an exp claim that is present must lie after now.
JwtParseNoSignature(tok, now) ==
    /\ tok.alg = "HS256"
    /\ (tok.exp # NoExp => now < tok.exp)
JwtParseOK(tok, now) ==
    /\ tok.alg = "HS256"
    /\ tok.sigOK
    /\ (tok.exp # NoExp => now < tok.exp)

\* exp must be a number and time.Now().Unix() > exp means expired.
ExpClaimOK(tok, now) == tok.exp # NoExp /\ ~(now > tok.exp)

SubClaimOK(tok) == tok.sub \in Users

\* AuthInterceptor.authenticate: the user id, or Unauthenticated.
authenticate(req) ==
    IF /\ req.hasMetadata
       /\ req.hasHeader
       /\ HasBearerPrefix(req.scheme)
       /\ JwtParseOK(req.token, req.now)
       /\ ExpClaimOK(req.token, req.now)
       /\ SubClaimOK(req.token)
    THEN [ ok |-> TRUE, userID |-> req.token.sub ]
    ELSE [ ok |-> FALSE, userID |-> "" ]

\* AuthInterceptor.Unary
UnaryResult(req) ==
    IF req.method \in publicMethods(req.service)
    THEN [ handlerInvoked |-> TRUE, code |-> "handler", userID |-> "" ]
    ELSE LET a == authenticate(req)
         IN IF a.ok
            THEN [ handlerInvoked |-> TRUE, code |-> "handler", userID |-> a.userID ]
            ELSE [ handlerInvoked |-> FALSE, code |-> "Unauthenticated", userID |-> "" ]

AuthInit ==
    /\ authPc = "idle"
    /\ authReq = NoAuthReq
    /\ authResp = NoAuthResp

\* A unary call arrives at one of the two servers.
AuthReceive ==
    /\ authPc = "idle"
    /\ \E r \in AuthRequests :
          /\ r.method \in MethodsOf(r.service)
          /\ authReq' = r
    /\ authPc' = "received"
    /\ UNCHANGED <<authResp, postVars, friendVars, groupVars, listVars, visVars, oauthVars>>

\* The interceptor runs on it.
AuthUnary ==
    /\ authPc = "received"
    /\ authResp' = UnaryResult(authReq)
    /\ authPc' = "answered"
    /\ UNCHANGED <<authReq, postVars, friendVars, groupVars, listVars, visVars, oauthVars>>

\* The call is over.
AuthFinish ==
    /\ authPc = "answered"
    /\ authPc' = "idle"
    /\ authReq' = NoAuthReq
    /\ authResp' = NoAuthResp
    /\ UNCHANGED <<postVars, friendVars, groupVars, listVars, visVars, oauthVars>>

AuthNext == AuthReceive \/ AuthUnary \/ AuthFinish

(***************************************************************************)
(* POSTS SERVICE                                                           *)
(***************************************************************************)

Workers == {"w1", "w2"}

MaxPosts == 1       \* rows of table posts
MaxLikes == 2       \* rows of table likes
MaxComments == 2    \* rows of table comments
MaxPostCalls == 4   \* post calls in one run

NoId == 0           \* the empty id string of a request
PostIdInputs == 0..MaxPosts
CommentIdInputs == 0..MaxComments
UserInputs == Users \cup {Anonymous}
GroupInputs == {"", "g1"}

\* Queries carry gorm's soft-delete scope: a row is found while deleted_at IS NULL.
LivePost(id) == id \in DOMAIN posts /\ ~posts[id].deleted
LiveComment(id) == id \in DOMAIN comments /\ ~comments[id].deleted
LiveLikesOf(p, u) ==
    { i \in DOMAIN likes : likes[i].post = p /\ likes[i].user = u /\ ~likes[i].deleted }
LiveLikesOfPost(p) == { i \in DOMAIN likes : likes[i].post = p /\ ~likes[i].deleted }
LiveCommentsOfPost(p) ==
    { i \in DOMAIN comments : comments[i].post = p /\ ~comments[i].deleted }

Min(S) == CHOOSE x \in S : \A y \in S : x <= y

\* UNIQUE INDEX idx_likes_post_user (post_id, user_id): deleted_at is no part of
\* the key, so a soft-deleted row still occupies its (post, user) pair.
NoLikesIndex(p, u) == FALSE
LikesIndexViolated(p, u) ==
    \E i \in DOMAIN likes : likes[i].post = p /\ likes[i].user = u

\* The resolver without its rule for the friends of the author.
isPostVisibleToUserNoFriends(post, userID, friendIDs) ==
    IF post.visibility = "public" THEN TRUE
    ELSE IF userID = post.author THEN TRUE
    ELSE IF post.group # "" THEN TRUE
    ELSE FALSE

\* postService.isPostVisibleToUser (friendIDs: a set, empty for nil)
isPostVisibleToUser(post, userID, friendIDs) ==
    IF post.visibility = "public" THEN TRUE
    ELSE IF userID = post.author THEN TRUE
    ELSE IF post.visibility = "private" /\ post.author \in friendIDs THEN TRUE
    ELSE IF post.group # "" THEN TRUE
    ELSE FALSE

\* The requests CreatePost is tried on: every visibility and group id by one
\* author, a post by a second author, and one request for each validation it
\* can fail.
CreatePostInputs ==
    [ userID : {"u1"}, content : {"hello"}, visibility : {"public", "private"},
      groupID : GroupInputs ]
    \cup { [ userID |-> "u2", content |-> "hello", visibility |-> "public", groupID |-> "" ],
           [ userID |-> "", content |-> "hello", visibility |-> "public", groupID |-> "" ],
           [ userID |-> "u1", content |-> "", visibility |-> "public", groupID |-> "" ],
           [ userID |-> "u1", content |-> "hello", visibility |-> "friends", groupID |-> "" ] }

\* The three tables of the posts store.
EmptyPostDB == [ posts |-> << >>, likes |-> << >>, comments |-> << >> ]
PostDB == [ posts |-> posts, likes |-> likes, comments |-> comments ]

\* A call in progress and a call's result.  Beside the arguments and the
\* answer they hold what the caller can tell of the call afterwards: whether
\* it ran alone (no other post call in progress between its start and its
\* return) and, for a call that ran alone, the tables as they were when it
\* was made (pre).
NoPostRow ==
    [ author |-> "", content |-> "", visibility |-> "", group |-> "",
      likes_count |-> 0, comments_count |-> 0, deleted |-> FALSE ]
NoPostCall ==
    [ op |-> "", post |-> 0, user |-> "", comment |-> 0, like |-> 0, count0 |-> 0,
      row |-> NoPostRow, pre |-> EmptyPostDB, alone |-> FALSE ]
\* The filters of a GetPosts request, none set.
NoFilter == [ author |-> "", group |-> "", visibility |-> "" ]

NoPostRet ==
    [ op |-> "", code |-> "", post |-> 0, user |-> "", count |-> 0,
      content |-> "", visibility |-> "", author |-> "", group |-> "",
      filter |-> NoFilter, friends |-> {}, list |-> {},
      pre |-> EmptyPostDB, alone |-> FALSE ]

PostRet(o, c, p, u, n) ==
    [ op |-> o, code |-> c, post |-> p, user |-> u, count |-> n,
      content |-> "", visibility |-> "", author |-> "", group |-> "",
      filter |-> NoFilter, friends |-> {}, list |-> {},
      pre |-> EmptyPostDB, alone |-> FALSE ]

PostInit ==
    /\ posts = << >>
    /\ likes = << >>
    /\ comments = << >>
    /\ ppc = [w \in Workers |-> "idle"]
    /\ pcall = [w \in Workers |-> NoPostCall]
    /\ pret = NoPostRet
    /\ pcalls = 0

\* A worker takes a new call / is at a position inside the call it runs.
PostBegin(w) ==
    /\ ppc[w] = "idle"
    /\ pcalls < MaxPostCalls
    /\ pcalls' = pcalls + 1
PostAt(w, pc) ==
    /\ ppc[w] = pc
    /\ UNCHANGED pcalls

\* Whether the call worker w runs ran alone so far, and the tables it started
\* from: decided as the call starts (w idle), carried in its locals after.
PostAlone(w) ==
    IF ppc[w] = "idle" THEN \A v \in Workers : ppc[v] = "idle" ELSE pcall[w].alone
PostPre(w) ==
    IF ~PostAlone(w) THEN EmptyPostDB
    ELSE IF ppc[w] = "idle" THEN PostDB ELSE pcall[w].pre

\* Worker w goes on with locals c: when this step starts w's call, the calls
\* in progress on the other workers no longer run alone.
PostLocals(w, c) ==
    [ v \in Workers |->
        IF v = w THEN c
        ELSE IF ppc[w] = "idle" /\ ppc[v] # "idle"
        THEN [pcall[v] EXCEPT !.alone = FALSE, !.pre = EmptyPostDB]
        ELSE pcall[v] ]

\* A call returns: the worker is free again and its result is recorded.
PostReturn(w, r) ==
    /\ ppc' = [ppc EXCEPT ![w] = "idle"]
    /\ pcall' = PostLocals(w, NoPostCall)
    /\ pret' = [r EXCEPT !.pre = PostPre(w), !.alone = PostAlone(w)]
    /\ UNCHANGED <<authVars, friendVars, groupVars, listVars, visVars, oauthVars>>

PostGoto(w, pc, c) ==
    /\ ppc' = [ppc EXCEPT ![w] = pc]
    /\ pcall' = PostLocals(w, [c EXCEPT !.pre = PostPre(w), !.alone = PostAlone(w)])
    /\ pret' = NoPostRet
    /\ UNCHANGED <<authVars, friendVars, groupVars, listVars, visVars, oauthVars>>

\* postService.CreatePost
CreatePost(w) ==
    /\ PostBegin(w)
    /\ \E in \in CreatePostInputs :
          LET userID == in.userID
              content == in.content
              visibility == in.visibility
              groupID == in.groupID
          IN
          IF userID = "" \/ content = "" \/ visibility \notin {"public", "private"}
          THEN /\ PostReturn(w, PostRet("CreatePost", "InvalidArgument", 0, userID, 0))
               /\ UNCHANGED posts
          ELSE /\ Len(posts) < MaxPosts
               /\ posts' = Append(posts,
                      [ author |-> userID, content |-> content, visibility |-> visibility,
                        group |-> groupID, likes_count |-> 0, comments_count |-> 0,
                        deleted |-> FALSE ])
               /\ PostReturn(w, PostRet("CreatePost", "OK", Len(posts) + 1, userID, 0))
    /\ UNCHANGED <<likes, comments>>

\* The visibility check of postService.GetPost: isPostVisibleToUser(post,
\* userID, nil), whatever friends the viewer has.
GetPostVisible(post, userID) == isPostVisibleToUser(post, userID, {})

\* postService.GetPost (FindByID, the visibility check with friendIDs = nil)
GetPost(w) ==
    /\ PostBegin(w)
    /\ \E postID \in PostIdInputs, userID \in UserInputs :
          IF postID = NoId
          THEN PostReturn(w, PostRet("GetPost", "InvalidArgument", postID, userID, 0))
          ELSE IF ~LivePost(postID)
          THEN PostReturn(w, PostRet("GetPost", "NotFound", postID, userID, 0))
          ELSE LET post == posts[postID]
                   r == [ PostRet("GetPost", "OK", postID, userID, post.likes_count)
                            EXCEPT !.visibility = post.visibility,
                                   !.author = post.author, !.group = post.group ]
               IN IF GetPostVisible(post, userID)
                  THEN PostReturn(w, r)
                  ELSE PostReturn(w, [r EXCEPT !.code = "PermissionDenied", !.count = 0])
    /\ UNCHANGED <<posts, likes, comments>>

\* postRepository.FindByAuthor / FindByGroup / FindPublic / FindVisible: the ids
\* of the rows found (page 1 holds them all: the limit is 10 or more)
FindByAuthor(authorID) == { i \in DOMAIN posts : LivePost(i) /\ posts[i].author = authorID }
FindByGroup(groupID) == { i \in DOMAIN posts : LivePost(i) /\ posts[i].group = groupID }
FindPublic == { i \in DOMAIN posts : LivePost(i) /\ posts[i].visibility = "public" }
FindVisible(userID, friendIDs) ==
    { i \in DOMAIN posts :
        /\ LivePost(i)
        /\ \/ posts[i].visibility = "public"
           \/ posts[i].visibility = "private" /\ posts[i].author \in friendIDs }

\* The filters GetPosts is tried on: no author or one, no group or one, and
\* the visibility filters.
GetPostsFilters ==
    [ author : {"", "u1"}, group : GroupInputs, visibility : {"", "public", "private"} ]

\* postService.GetPosts: the branch the filters select, then the visibility
\* check on every row found
GetPosts(w) ==
    /\ PostBegin(w)
    /\ \E userID \in UserInputs, f \in GetPostsFilters, friendIDs \in SUBSET Users :
          LET found == IF f.author # "" THEN FindByAuthor(f.author)
                       ELSE IF f.group # "" THEN FindByGroup(f.group)
                       ELSE IF userID = "" \/ f.visibility = "public" THEN FindPublic
                       ELSE FindVisible(userID, friendIDs)
              visiblePosts == { i \in found : isPostVisibleToUser(posts[i], userID, friendIDs) }
          IN PostReturn(w, [ PostRet("GetPosts", "OK", NoId, userID, Cardinality(found))
                               EXCEPT !.filter = f, !.friends = friendIDs,
                                      !.list = visiblePosts ])
    /\ UNCHANGED <<posts, likes, comments>>

\* postRepository.Increment/Decrement...Count: UPDATE posts SET c = c + d WHERE
\* id = ? AND deleted_at IS NULL, one atomic statement.
AddToLikesCountUp(id, d) ==
    IF LivePost(id)
    THEN [posts EXCEPT ![id].likes_count = @ + 1]
    ELSE posts
AddToLikesCount(id, d) ==
    IF LivePost(id)
    THEN [posts EXCEPT ![id].likes_count = @ + d]
    ELSE posts
AddToCommentsCount(id, d) ==
    IF LivePost(id)
    THEN [posts EXCEPT ![id].comments_count = @ + d]
    ELSE posts

\* postService.LikePost: validation and FindByID of the post
LikePostCall(w) ==
    /\ PostBegin(w)
    /\ \E postID \in PostIdInputs, userID \in UserInputs :
          IF postID = NoId \/ userID = ""
          THEN PostReturn(w, PostRet("LikePost", "InvalidArgument", postID, userID, 0))
          ELSE IF ~LivePost(postID)
          THEN PostReturn(w, PostRet("LikePost", "NotFound", postID, userID, 0))
          ELSE PostGoto(w, "like_find",
                   [NoPostCall EXCEPT !.op = "LikePost", !.post = postID, !.user = userID,
                                      !.count0 = posts[postID].likes_count])
    /\ UNCHANGED <<posts, likes, comments>>

\* likeRepo.FindByPostAndUser
LikePostFind(w) ==
    /\ PostAt(w, "like_find")
    /\ LET c == pcall[w]
       IN IF LiveLikesOf(c.post, c.user) # {}
          THEN PostReturn(w, PostRet("LikePost", "AlreadyExists", c.post, c.user, c.count0))
          ELSE PostGoto(w, "like_create", c)
    /\ UNCHANGED <<posts, likes, comments>>

\* likeRepo.Create
LikePostCreate(w) ==
    /\ PostAt(w, "like_create")
    /\ LET c == pcall[w]
       IN IF LikesIndexViolated(c.post, c.user)
          THEN /\ PostReturn(w, PostRet("LikePost", "Internal", c.post, c.user, 0))
               /\ UNCHANGED likes
          ELSE /\ Len(likes) < MaxLikes
               /\ likes' = Append(likes, [post |-> c.post, user |-> c.user, deleted |-> FALSE])
               /\ PostGoto(w, "like_incr", c)
    /\ UNCHANGED <<posts, comments>>

\* postRepo.IncrementLikesCount
LikePostIncrement(w) ==
    /\ PostAt(w, "like_incr")
    /\ posts' = AddToLikesCount(pcall[w].post, 1)
    /\ PostGoto(w, "like_reread", pcall[w])
    /\ UNCHANGED <<likes, comments>>

\* postRepo.FindByID again, for the count to return
LikePostReread(w) ==
    /\ PostAt(w, "like_reread")
    /\ LET c == pcall[w]
       IN IF LivePost(c.post)
          THEN PostReturn(w, PostRet("LikePost", "OK", c.post, c.user, posts[c.post].likes_count))
          ELSE PostReturn(w, PostRet("LikePost", "OK", c.post, c.user, c.count0 + 1))
    /\ UNCHANGED <<posts, likes, comments>>

\* postService.UnlikePost: validation and FindByID of the post
UnlikePostCall(w) ==
    /\ PostBegin(w)
    /\ \E postID \in PostIdInputs, userID \in UserInputs :
          IF postID = NoId \/ userID = ""
          THEN PostReturn(w, PostRet("UnlikePost", "InvalidArgument", postID, userID, 0))
          ELSE IF ~LivePost(postID)
          THEN PostReturn(w, PostRet("UnlikePost", "NotFound", postID, userID, 0))
          ELSE PostGoto(w, "unlike_find",
                   [NoPostCall EXCEPT !.op = "UnlikePost", !.post = postID, !.user = userID,
                                      !.count0 = posts[postID].likes_count])
    /\ UNCHANGED <<posts, likes, comments>>

\* likeRepo.FindByPostAndUser
UnlikePostFind(w) ==
    /\ PostAt(w, "unlike_find")
    /\ LET c == pcall[w]
       IN IF LiveLikesOf(c.post, c.user) = {}
          THEN PostReturn(w, PostRet("UnlikePost", "NotFound", c.post, c.user, c.count0))
          ELSE PostGoto(w, "unlike_delete", [c EXCEPT !.like = Min(LiveLikesOf(c.post, c.user))])
    /\ UNCHANGED <<posts, likes, comments>>

\* likeRepo.Delete: UPDATE likes SET deleted_at = now WHERE id = ? AND deleted_at
\* IS NULL; a statement that matches no row is no error.
UnlikePostDelete(w) ==
    /\ PostAt(w, "unlike_delete")
    /\ likes' = [likes EXCEPT ![pcall[w].like].deleted = TRUE]
    /\ PostGoto(w, "unlike_decr", pcall[w])
    /\ UNCHANGED <<posts, comments>>

\* postRepo.DecrementLikesCount
UnlikePostDecrement(w) ==
    /\ PostAt(w, "unlike_decr")
    /\ posts' = AddToLikesCount(pcall[w].post, -1)
    /\ PostGoto(w, "unlike_reread", pcall[w])
    /\ UNCHANGED <<likes, comments>>

\* postRepo.FindByID again, for the count to return
UnlikePostReread(w) ==
    /\ PostAt(w, "unlike_reread")
    /\ LET c == pcall[w]
       IN IF LivePost(c.post)
          THEN PostReturn(w, PostRet("UnlikePost", "OK", c.post, c.user, posts[c.post].likes_count))
          ELSE PostReturn(w, PostRet("UnlikePost", "OK", c.post, c.user, c.count0 - 1))
    /\ UNCHANGED <<posts, likes, comments>>

\* postService.AddComment: validation and FindByID of the post
AddCommentCall(w) ==
    /\ PostBegin(w)
    /\ \E postID \in PostIdInputs, userID \in UserInputs, content \in {"", "hello"} :
          IF postID = NoId \/ userID = "" \/ content = ""
          THEN PostReturn(w, PostRet("AddComment", "InvalidArgument", postID, userID, 0))
          ELSE IF ~LivePost(postID)
          THEN PostReturn(w, PostRet("AddComment", "NotFound", postID, userID, 0))
          ELSE PostGoto(w, "addc_create",
                   [NoPostCall EXCEPT !.op = "AddComment", !.post = postID, !.user = userID])
    /\ UNCHANGED <<posts, likes, comments>>

\* commentRepo.Create
AddCommentCreate(w) ==
    /\ PostAt(w, "addc_create")
    /\ Len(comments) < MaxComments
    /\ comments' = Append(comments,
           [post |-> pcall[w].post, author |-> pcall[w].user, deleted |-> FALSE])
    /\ PostGoto(w, "addc_incr", [pcall[w] EXCEPT !.comment = Len(comments) + 1])
    /\ UNCHANGED <<posts, likes>>

\* postRepo.IncrementCommentsCount
AddCommentIncrement(w) ==
    /\ PostAt(w, "addc_incr")
    /\ posts' = AddToCommentsCount(pcall[w].post, 1)
    /\ PostReturn(w, PostRet("AddComment", "OK", pcall[w].post, pcall[w].user, pcall[w].comment))
    /\ UNCHANGED <<likes, comments>>

\* postService.DeleteComment: validation, FindByID of the comment, its post id
DeleteCommentCall(w) ==
    /\ PostBegin(w)
    /\ \E commentID \in CommentIdInputs, postID \in PostIdInputs, userID \in UserInputs :
          IF commentID = NoId \/ postID = NoId \/ userID = ""
          THEN PostReturn(w, PostRet("DeleteComment", "InvalidArgument", postID, userID, commentID))
          ELSE IF ~LiveComment(commentID)
          THEN PostReturn(w, PostRet("DeleteComment", "NotFound", postID, userID, commentID))
          ELSE IF comments[commentID].post # postID
          THEN PostReturn(w, PostRet("DeleteComment", "InvalidArgument", postID, userID, commentID))
          ELSE PostGoto(w, "delc_findpost",
                   [NoPostCall EXCEPT !.op = "DeleteComment", !.post = postID,
                                      !.user = userID, !.comment = commentID])
    /\ UNCHANGED <<posts, likes, comments>>

\* postRepo.FindByID and the author check (the comment is the one read before)
DeleteCommentFindPost(w) ==
    /\ PostAt(w, "delc_findpost")
    /\ LET c == pcall[w]
       IN IF ~LivePost(c.post)
          THEN PostReturn(w, PostRet("DeleteComment", "NotFound", c.post, c.user, c.comment))
          ELSE IF comments[c.comment].author # c.user /\ posts[c.post].author # c.user
          THEN PostReturn(w, PostRet("DeleteComment", "PermissionDenied", c.post, c.user, c.comment))
          ELSE PostGoto(w, "delc_delete", c)
    /\ UNCHANGED <<posts, likes, comments>>

\* commentRepo.Delete (soft delete by id)
DeleteCommentDelete(w) ==
    /\ PostAt(w, "delc_delete")
    /\ comments' = [comments EXCEPT ![pcall[w].comment].deleted = TRUE]
    /\ PostGoto(w, "delc_decr", pcall[w])
    /\ UNCHANGED <<posts, likes>>

\* postRepo.DecrementCommentsCount
DeleteCommentDecrement(w) ==
    /\ PostAt(w, "delc_decr")
    /\ posts' = AddToCommentsCount(pcall[w].post, -1)
    /\ PostReturn(w, PostRet("DeleteComment", "OK", pcall[w].post, pcall[w].user, pcall[w].comment))
    /\ UNCHANGED <<likes, comments>>

\* The author check of UpdatePost and DeletePost: post.AuthorID != userID
NotAuthorNever(post, userID) == FALSE
NotAuthor(post, userID) == post.author # userID

\* The requests UpdatePost is tried on: content and visibility as sent ("" for
\* the visibility: keep the stored one).
UpdateContentInputs == {"", "edited"}
UpdateVisibilityInputs == {"", "public", "private", "friends"}

\* postService.UpdatePost: validation, FindByID, the author check, the fields
\* set on the struct read
UpdatePostCall(w) ==
    /\ PostBegin(w)
    /\ \E postID \in PostIdInputs, userID \in UserInputs,
          content \in UpdateContentInputs, visibility \in UpdateVisibilityInputs :
          LET r(code) == [ PostRet("UpdatePost", code, postID, userID, 0)
                             EXCEPT !.content = content, !.visibility = visibility ]
          IN IF \/ postID = NoId \/ userID = "" \/ content = ""
                \/ visibility \notin {"", "public", "private"}
             THEN PostReturn(w, r("InvalidArgument"))
             ELSE IF ~LivePost(postID)
             THEN PostReturn(w, r("NotFound"))
             ELSE IF NotAuthor(posts[postID], userID)
             THEN PostReturn(w, r("PermissionDenied"))
             ELSE PostGoto(w, "updp_save",
                      [NoPostCall EXCEPT
                         !.op = "UpdatePost", !.post = postID, !.user = userID,
                         !.row = [posts[postID] EXCEPT
                                    !.content = content,
                                    !.visibility = IF visibility # "" THEN visibility ELSE @]])
    /\ UNCHANGED <<posts, likes, comments>>

\* postRepo.Update: db.Save(post) writes every column of the struct read by
\* FindByID, by UPDATE ... WHERE id = ? AND deleted_at IS NULL and, when that
\* matches no row, by INSERT ... ON DUPLICATE KEY UPDATE of every column.
UpdatePostSave(w) ==
    /\ PostAt(w, "updp_save")
    /\ LET c == pcall[w]
       IN /\ posts' = [posts EXCEPT ![c.post] = c.row]
          /\ PostReturn(w, [ PostRet("UpdatePost", "OK", c.post, c.user, 0)
                               EXCEPT !.content = c.row.content,
                                      !.visibility = c.row.visibility ])
    /\ UNCHANGED <<likes, comments>>

\* postService.DeletePost: validation, FindByID, the author check
DeletePostCall(w) ==
    /\ PostBegin(w)
    /\ \E postID \in PostIdInputs, userID \in UserInputs :
          IF postID = NoId \/ userID = ""
          THEN PostReturn(w, PostRet("DeletePost", "InvalidArgument", postID, userID, 0))
          ELSE IF ~LivePost(postID)
          THEN PostReturn(w, PostRet("DeletePost", "NotFound", postID, userID, 0))
          ELSE IF NotAuthor(posts[postID], userID)
          THEN PostReturn(w, PostRet("DeletePost", "PermissionDenied", postID, userID, 0))
          ELSE PostGoto(w, "delp_delete",
                   [NoPostCall EXCEPT !.op = "DeletePost", !.post = postID, !.user = userID])
    /\ UNCHANGED <<posts, likes, comments>>

\* postRepo.Delete (soft delete: the row and the rows that reference it stay)
DeletePostDelete(w) ==
    /\ PostAt(w, "delp_delete")
    /\ posts' = [posts EXCEPT ![pcall[w].post].deleted = TRUE]
    /\ PostReturn(w, PostRet("DeletePost", "OK", pcall[w].post, pcall[w].user, 0))
    /\ UNCHANGED <<likes, comments>>

\* postService.GetComments: commentRepo.FindByPost asks for the comments by
\* post_id; the post itself is not looked up (page 1 holds them all)
GetComments(w) ==
    /\ PostBegin(w)
    /\ \E postID \in PostIdInputs :
          IF postID = NoId
          THEN PostReturn(w, PostRet("GetComments", "InvalidArgument", postID, "", 0))
          ELSE PostReturn(w, [ PostRet("GetComments", "OK", postID, "",
                                       Cardinality(LiveCommentsOfPost(postID)))
                                 EXCEPT !.list = LiveCommentsOfPost(postID) ])
    /\ UNCHANGED <<posts, likes, comments>>

PostNext ==
    \E w \in Workers :
        \/ CreatePost(w)
        \/ GetPost(w)
        \/ LikePostCall(w)
        \/ LikePostFind(w)
        \/ LikePostCreate(w)
        \/ LikePostIncrement(w)
        \/ LikePostReread(w)
        \/ UnlikePostCall(w)
        \/ UnlikePostFind(w)
        \/ UnlikePostDelete(w)
        \/ UnlikePostDecrement(w)
        \/ UnlikePostReread(w)
        \/ AddCommentCall(w)
        \/ AddCommentCreate(w)
        \/ AddCommentIncrement(w)
        \/ DeleteCommentCall(w)
        \/ DeleteCommentFindPost(w)
        \/ DeleteCommentDelete(w)
        \/ DeleteCommentDecrement(w)
        \/ DeletePostCall(w)
        \/ DeletePostDelete(w)
        \/ UpdatePostCall(w)
        \/ UpdatePostSave(w)

(***************************************************************************)
(* FRIENDS SERVICE                                                         *)
(***************************************************************************)

MaxRequests == 2      \* rows of table friend_requests
MaxFriendCalls == 4   \* friend calls in one run

\* Request ids a caller may name; an id beyond the rows created so far is unknown.
RequestIdInputs == 1..MaxRequests

\* The three tables.  Their unique indexes all end in the nullable deleted_at
\* column, which is NULL in every live row, so they admit any number of live
\* rows with the same key: friendships and blocked_users are bags of pairs.
NoRows == [p \in Users \X Users |-> 0]
EmptyDB == [ requests |-> << >>, friendships |-> NoRows, blocks |-> NoRows ]
DB == [ requests |-> requests, friendships |-> friendships, blocks |-> blocks ]

\* friendRepository.CheckFriendship, first query: rows user_id = ? AND friend_id = ?
FriendshipCount(db, userID, friendID) == db.friendships[<<userID, friendID>>]

\* second query: pending requests between the two, in either direction
PendingRequestsOneWay(db, userID, friendID) ==
    { i \in DOMAIN db.requests :
        /\ db.requests[i].status = "pending"
        /\ db.requests[i].sender = userID /\ db.requests[i].receiver = friendID }
PendingRequests(db, userID, friendID) ==
    { i \in DOMAIN db.requests :
        /\ db.requests[i].status = "pending"
        /\ \/ db.requests[i].sender = userID /\ db.requests[i].receiver = friendID
           \/ db.requests[i].sender = friendID /\ db.requests[i].receiver = userID }

\* third query: block rows between the two, in either direction
BlockedCount(db, userID, friendID) ==
    IF userID = friendID
    THEN db.blocks[<<userID, friendID>>]
    ELSE db.blocks[<<userID, friendID>>] + db.blocks[<<friendID, userID>>]

\* friendRepository.CheckFriendship on one snapshot of the tables
CheckFriendship(db, userID, friendID) ==
    IF FriendshipCount(db, userID, friendID) > 0 THEN "friends"
    ELSE IF PendingRequests(db, userID, friendID) # {} THEN "pending"
    ELSE IF BlockedCount(db, userID, friendID) > 0 THEN "blocked"
    ELSE "none"

\* friendRepository.IsUserBlocked: rows user_id = ? AND blocked_user_id = ?
IsUserBlocked(db, userID, blockedUserID) ==
    db.blocks[<<userID, blockedUserID>>] > 0

\* The two rows AcceptFriendRequest creates: friendship1 and friendship2.
friendship1(request) == <<request.sender, request.receiver>>
friendship2(request) == <<request.receiver, request.sender>>

\* The keys of the two DELETE statements of friendRepository.DeleteFriendship.
DeleteFriendshipFirst(userID, friendID) == <<userID, friendID>>
DeleteFriendshipSecondRepeated(userID, friendID) == <<userID, friendID>>
DeleteFriendshipSecond(userID, friendID) == <<friendID, userID>>

\* The two checks AcceptFriendRequest and RejectFriendRequest make on the row read.
NotReceiver(request, userID) == request.receiver # userID
NotPending(request) == request.status # "pending"

\* A call in progress: its arguments, and what its caller can tell of it
\* afterwards: whether it ran alone, that is, no other friend call was in
\* progress at any time between its start and its return, and, for a call
\* that ran alone, the tables as they were when it was made (pre).
NoFriendCall ==
    [ op |-> "", user |-> "", other |-> "", req |-> 0, pre |-> EmptyDB, alone |-> FALSE ]
NoFriendRet ==
    [ op |-> "", ok |-> FALSE, err |-> "", user |-> "", other |-> "", req |-> 0,
      status |-> "", pre |-> EmptyDB, alone |-> FALSE ]

FriendInit ==
    /\ requests = << >>
    /\ friendships = NoRows
    /\ blocks = NoRows
    /\ fpc = [w \in Workers |-> "idle"]
    /\ fcall = [w \in Workers |-> NoFriendCall]
    /\ fret = NoFriendRet
    /\ fcalls = 0
    /\ rejectedOK = {}
    /\ viaRequest = {}

\* A worker takes a new call / is at a position inside the call it runs.
FriendBegin(w) ==
    /\ fpc[w] = "idle"
    /\ fcalls < MaxFriendCalls
    /\ fcalls' = fcalls + 1
FriendAt(w, pc) ==
    /\ fpc[w] = pc
    /\ UNCHANGED fcalls

FriendCall(o, u, f, r) ==
    LET alone == \A v \in Workers : fpc[v] = "idle"
    IN [ op |-> o, user |-> u, other |-> f, req |-> r,
         pre |-> IF alone THEN DB ELSE EmptyDB, alone |-> alone ]

\* Worker w goes on with locals c: when this step starts w's call, the calls
\* in progress on the other workers no longer run alone.
FriendLocals(w, c) ==
    [ v \in Workers |->
        IF v = w THEN c
        ELSE IF fpc[w] = "idle" /\ fpc[v] # "idle"
        THEN [fcall[v] EXCEPT !.alone = FALSE, !.pre = EmptyDB]
        ELSE fcall[v] ]

\* A call returns r: the worker is free again.
FriendReturn(w, r) ==
    /\ fpc' = [fpc EXCEPT ![w] = "idle"]
    /\ fcall' = FriendLocals(w, NoFriendCall)
    /\ fret' = r
    /\ UNCHANGED <<authVars, postVars, groupVars, listVars, visVars, oauthVars>>

FriendOK(w, c, status) ==
    FriendReturn(w, [ op |-> c.op, ok |-> TRUE, err |-> "", user |-> c.user,
                      other |-> c.other, req |-> c.req, status |-> status,
                      pre |-> c.pre, alone |-> c.alone ])
FriendFail(w, c, err) ==
    FriendReturn(w, [ op |-> c.op, ok |-> FALSE, err |-> err, user |-> c.user,
                      other |-> c.other, req |-> c.req, status |-> "",
                      pre |-> c.pre, alone |-> c.alone ])

FriendGoto(w, pc, c) ==
    /\ fpc' = [fpc EXCEPT ![w] = pc]
    /\ fcall' = FriendLocals(w, c)
    /\ fret' = NoFriendRet
    /\ UNCHANGED <<authVars, postVars, groupVars, listVars, visVars, oauthVars>>

\* The service code that runs on the status repo.CheckFriendship returned.
SendFriendRequestChecked(w, status) ==
    IF status = "friends" THEN FriendFail(w, fcall[w], "already friends")
    ELSE IF status = "pending" THEN FriendFail(w, fcall[w], "friend request already sent")
    ELSE IF status = "blocked"
    THEN FriendFail(w, fcall[w], "cannot send friend request to blocked user")
    ELSE FriendGoto(w, "send_create", fcall[w])

RemoveFriendChecked(w, status) ==
    IF status # "friends" THEN FriendFail(w, fcall[w], "not friends")
    ELSE FriendGoto(w, "delete_first", fcall[w])

BlockUserChecked(w, status) ==
    IF status = "friends" THEN FriendGoto(w, "delete_first", fcall[w])
    ELSE FriendGoto(w, "block_create", fcall[w])

CheckFriendshipChecked(w, status) == FriendOK(w, fcall[w], status)

Checked(w, status) ==
    CASE fcall[w].op = "SendFriendRequest" -> SendFriendRequestChecked(w, status)
      [] fcall[w].op = "RemoveFriend" -> RemoveFriendChecked(w, status)
      [] fcall[w].op = "BlockUser" -> BlockUserChecked(w, status)
      [] fcall[w].op = "CheckFriendship" -> CheckFriendshipChecked(w, status)

\* friendRepository.CheckFriendship: its three queries, one step each.
CheckFriendshipFriends(w) ==
    /\ FriendAt(w, "check_friends")
    /\ IF FriendshipCount(DB, fcall[w].user, fcall[w].other) > 0
       THEN Checked(w, "friends")
       ELSE FriendGoto(w, "check_pending", fcall[w])
    /\ UNCHANGED <<requests, friendships, blocks, rejectedOK, viaRequest>>

CheckFriendshipPending(w) ==
    /\ FriendAt(w, "check_pending")
    /\ IF PendingRequests(DB, fcall[w].user, fcall[w].other) # {}
       THEN Checked(w, "pending")
       ELSE FriendGoto(w, "check_blocked", fcall[w])
    /\ UNCHANGED <<requests, friendships, blocks, rejectedOK, viaRequest>>

CheckFriendshipBlocked(w) ==
    /\ FriendAt(w, "check_blocked")
    /\ IF BlockedCount(DB, fcall[w].user, fcall[w].other) > 0
       THEN Checked(w, "blocked")
       ELSE Checked(w, "none")
    /\ UNCHANGED <<requests, friendships, blocks, rejectedOK, viaRequest>>

\* friendService.SendFriendRequest
SendFriendRequestCall(w) ==
    /\ FriendBegin(w)
    /\ Len(requests) + Cardinality({v \in Workers : fcall[v].op = "SendFriendRequest"})
          < MaxRequests
    /\ \E senderID \in Users, receiverID \in Users :
          LET c == FriendCall("SendFriendRequest", senderID, receiverID, 0)
          IN IF senderID = receiverID
             THEN FriendFail(w, c, "cannot send friend request to yourself")
             ELSE FriendGoto(w, "check_friends", c)
    /\ UNCHANGED <<requests, friendships, blocks, rejectedOK, viaRequest>>

SendFriendRequestCreate(w) ==
    /\ FriendAt(w, "send_create")
    /\ requests' = Append(requests,
           [ sender |-> fcall[w].user, receiver |-> fcall[w].other, status |-> "pending" ])
    /\ FriendOK(w, [fcall[w] EXCEPT !.req = Len(requests) + 1], "pending")
    /\ UNCHANGED <<friendships, blocks, rejectedOK, viaRequest>>

\* friendService.AcceptFriendRequest
AcceptFriendRequestCall(w) ==
    /\ FriendBegin(w)
    /\ \E requestID \in RequestIdInputs, userID \in Users :
          LET c == FriendCall("AcceptFriendRequest", userID, "", requestID)
          IN IF requestID \notin DOMAIN requests
             THEN FriendFail(w, c, "record not found")
             ELSE IF NotReceiver(requests[requestID], userID)
             THEN FriendFail(w, c, "not authorized to accept this friend request")
             ELSE IF NotPending(requests[requestID])
             THEN FriendFail(w, c, "friend request is not pending")
             ELSE FriendGoto(w, "accept_update", c)
    /\ UNCHANGED <<requests, friendships, blocks, rejectedOK, viaRequest>>

AcceptFriendRequestUpdate(w) ==
    /\ FriendAt(w, "accept_update")
    /\ requests' = [requests EXCEPT ![fcall[w].req].status = "accepted"]
    /\ FriendGoto(w, "accept_friendship1", fcall[w])
    /\ UNCHANGED <<friendships, blocks, rejectedOK, viaRequest>>

AcceptFriendRequestFriendship1(w) ==
    /\ FriendAt(w, "accept_friendship1")
    /\ friendships' = [friendships EXCEPT ![friendship1(requests[fcall[w].req])] = @ + 1]
    /\ viaRequest' = IF fcall[w].req \in rejectedOK
                     THEN viaRequest \cup {fcall[w].req} ELSE viaRequest
    /\ FriendGoto(w, "accept_friendship2", fcall[w])
    /\ UNCHANGED <<requests, blocks, rejectedOK>>

AcceptFriendRequestFriendship2(w) ==
    /\ FriendAt(w, "accept_friendship2")
    /\ friendships' = [friendships EXCEPT ![friendship2(requests[fcall[w].req])] = @ + 1]
    /\ viaRequest' = IF fcall[w].req \in rejectedOK
                     THEN viaRequest \cup {fcall[w].req} ELSE viaRequest
    /\ FriendOK(w, fcall[w], "accepted")
    /\ UNCHANGED <<requests, blocks, rejectedOK>>

\* friendService.RejectFriendRequest
RejectFriendRequestCall(w) ==
    /\ FriendBegin(w)
    /\ \E requestID \in RequestIdInputs, userID \in Users :
          LET c == FriendCall("RejectFriendRequest", userID, "", requestID)
          IN IF requestID \notin DOMAIN requests
             THEN FriendFail(w, c, "record not found")
             ELSE IF NotReceiver(requests[requestID], userID)
             THEN FriendFail(w, c, "not authorized to reject this friend request")
             ELSE IF NotPending(requests[requestID])
             THEN FriendFail(w, c, "friend request is not pending")
             ELSE FriendGoto(w, "reject_update", c)
    /\ UNCHANGED <<requests, friendships, blocks, rejectedOK, viaRequest>>

RejectFriendRequestUpdate(w) ==
    /\ FriendAt(w, "reject_update")
    /\ requests' = [requests EXCEPT ![fcall[w].req].status = "rejected"]
    /\ rejectedOK' = rejectedOK \cup {fcall[w].req}
    /\ FriendOK(w, fcall[w], "rejected")
    /\ UNCHANGED <<friendships, blocks, viaRequest>>

\* friendService.RemoveFriend
RemoveFriendCall(w) ==
    /\ FriendBegin(w)
    /\ \E userID \in Users, friendID \in Users :
          FriendGoto(w, "check_friends", FriendCall("RemoveFriend", userID, friendID, 0))
    /\ UNCHANGED <<requests, friendships, blocks, rejectedOK, viaRequest>>

\* friendRepository.DeleteFriendship: two DELETE statements
DeleteFriendshipOne(w) ==
    /\ FriendAt(w, "delete_first")
    /\ friendships' =
          [friendships EXCEPT ![DeleteFriendshipFirst(fcall[w].user, fcall[w].other)] = 0]
    /\ FriendGoto(w, "delete_second", fcall[w])
    /\ UNCHANGED <<requests, blocks, rejectedOK, viaRequest>>

DeleteFriendshipTwo(w) ==
    /\ FriendAt(w, "delete_second")
    /\ friendships' =
          [friendships EXCEPT ![DeleteFriendshipSecond(fcall[w].user, fcall[w].other)] = 0]
    /\ IF fcall[w].op = "BlockUser"
       THEN FriendGoto(w, "block_create", fcall[w])
       ELSE FriendOK(w, fcall[w], "")
    /\ UNCHANGED <<requests, blocks, rejectedOK, viaRequest>>

\* friendService.BlockUser
BlockUserCall(w) ==
    /\ FriendBegin(w)
    /\ \E userID \in Users, blockedUserID \in Users :
          LET c == FriendCall("BlockUser", userID, blockedUserID, 0)
          IN IF userID = blockedUserID
             THEN FriendFail(w, c, "cannot block yourself")
             ELSE IF IsUserBlocked(DB, userID, blockedUserID)
             THEN FriendFail(w, c, "user is already blocked")
             ELSE FriendGoto(w, "check_friends", c)
    /\ UNCHANGED <<requests, friendships, blocks, rejectedOK, viaRequest>>

BlockUserCreate(w) ==
    /\ FriendAt(w, "block_create")
    /\ blocks' = [blocks EXCEPT ![<<fcall[w].user, fcall[w].other>>] = @ + 1]
    /\ FriendOK(w, fcall[w], "")
    /\ UNCHANGED <<requests, friendships, rejectedOK, viaRequest>>

\* friendService.UnblockUser
UnblockUserCall(w) ==
    /\ FriendBegin(w)
    /\ \E userID \in Users, blockedUserID \in Users :
          LET c == FriendCall("UnblockUser", userID, blockedUserID, 0)
          IN IF ~IsUserBlocked(DB, userID, blockedUserID)
             THEN FriendFail(w, c, "user is not blocked")
             ELSE FriendGoto(w, "unblock_delete", c)
    /\ UNCHANGED <<requests, friendships, blocks, rejectedOK, viaRequest>>

UnblockUserDelete(w) ==
    /\ FriendAt(w, "unblock_delete")
    /\ blocks' = [blocks EXCEPT ![<<fcall[w].user, fcall[w].other>>] = 0]
    /\ FriendOK(w, fcall[w], "")
    /\ UNCHANGED <<requests, friendships, rejectedOK, viaRequest>>

\* friendService.CheckFriendship
CheckFriendshipCall(w) ==
    /\ FriendBegin(w)
    /\ \E userID \in Users, friendID \in Users :
          LET c == FriendCall("CheckFriendship", userID, friendID, 0)
          IN IF userID = friendID
             THEN FriendOK(w, c, "self")
             ELSE FriendGoto(w, "check_friends", c)
    /\ UNCHANGED <<requests, friendships, blocks, rejectedOK, viaRequest>>

FriendNext ==
    \E w \in Workers :
        \/ SendFriendRequestCall(w)
        \/ SendFriendRequestCreate(w)
        \/ AcceptFriendRequestCall(w)
        \/ AcceptFriendRequestUpdate(w)
        \/ AcceptFriendRequestFriendship1(w)
        \/ AcceptFriendRequestFriendship2(w)
        \/ RejectFriendRequestCall(w)
        \/ RejectFriendRequestUpdate(w)
        \/ RemoveFriendCall(w)
        \/ DeleteFriendshipOne(w)
        \/ DeleteFriendshipTwo(w)
        \/ BlockUserCall(w)
        \/ BlockUserCreate(w)
        \/ UnblockUserCall(w)
        \/ UnblockUserDelete(w)
        \/ CheckFriendshipCall(w)
        \/ CheckFriendshipFriends(w)
        \/ CheckFriendshipPending(w)
        \/ CheckFriendshipBlocked(w)

(***************************************************************************)
(* GROUPS SERVICE                                                          *)
(***************************************************************************)

MaxGroups == 1       \* rows of table groups
MaxMembers == 3      \* JoinGroup adds a row to group_members below this many rows
MaxGroupPosts == 1   \* rows of table group_posts
MaxGroupCalls == 4   \* group calls in one run

NoGroupId == 0       \* a group id that names no row
GroupIdInputs == 0..MaxGroups
GroupNameInputs == {"", "n1"}

\* Queries carry gorm's soft-delete scope: a row is found while deleted_at IS NULL.
EmptyGroupDB == [ groups |-> << >>, members |-> << >>, gposts |-> << >> ]
GroupDB == [ groups |-> groups, members |-> members, gposts |-> gposts ]

\* groupRepository.GetGroupByID finds a row
LiveGroup(id) == id \in DOMAIN groups /\ ~groups[id].deleted

LiveMembersOf(groupID, userID) ==
    { i \in DOMAIN members :
        members[i].group = groupID /\ members[i].user = userID /\ ~members[i].deleted }

\* groupRepository.IsMember: COUNT(*) WHERE group_id = ? AND user_id = ? is > 0
IsMemberAlways(groupID, userID) == TRUE
IsMember(groupID, userID) == LiveMembersOf(groupID, userID) # {}

\* groupRepository.GetGroupMembers, its count: COUNT(*) WHERE group_id = ?
GetGroupMembersCount(groupID) ==
    Cardinality({ i \in DOMAIN members : members[i].group = groupID /\ ~members[i].deleted })

\* UNIQUE INDEX idx_group_members_group_user (group_id, user_id, deleted_at):
\* deleted_at is NULL in every live row and NULLs are distinct in a unique
\* index, so the index refuses no live row.
GroupMembersIndexViolated(groupID, userID) == FALSE

\* groupRepository.AddMember
AddMember(groupID, userID, role) ==
    Append(members, [ group |-> groupID, user |-> userID, role |-> role, deleted |-> FALSE ])

\* groupRepository.RemoveMember: soft delete WHERE group_id = ? AND user_id = ?
RemoveMember(groupID, userID) ==
    [ i \in DOMAIN members |->
        IF members[i].group = groupID /\ members[i].user = userID
        THEN [members[i] EXCEPT !.deleted = TRUE]
        ELSE members[i] ]

\* A call in progress and a call's result, with what the caller can tell of
\* the call afterwards: whether it ran alone and, for a call that ran alone,
\* the tables as they were when it was made (pre).
NoGroupRow == [ creator |-> "", name |-> "", deleted |-> FALSE ]
NoGroupCall ==
    [ op |-> "", group |-> 0, user |-> "", name |-> "", row |-> NoGroupRow,
      pre |-> EmptyGroupDB, alone |-> FALSE ]
NoGroupRet ==
    [ op |-> "", ok |-> FALSE, err |-> "", group |-> 0, user |-> "", name |-> "",
      count |-> 0, pre |-> EmptyGroupDB, alone |-> FALSE ]

GroupInit ==
    /\ groups = << >>
    /\ members = << >>
    /\ gposts = << >>
    /\ gpc = [w \in Workers |-> "idle"]
    /\ gcall = [w \in Workers |-> NoGroupCall]
    /\ gret = NoGroupRet
    /\ gcalls = 0

\* A worker takes a new call / is at a position inside the call it runs.
GroupBegin(w) ==
    /\ gpc[w] = "idle"
    /\ gcalls < MaxGroupCalls
    /\ gcalls' = gcalls + 1
GroupAt(w, pc) ==
    /\ gpc[w] = pc
    /\ UNCHANGED gcalls

GroupCall(o, g, u, n) ==
    LET alone == \A v \in Workers : gpc[v] = "idle"
    IN [ NoGroupCall EXCEPT !.op = o, !.group = g, !.user = u, !.name = n,
                            !.pre = IF alone THEN GroupDB ELSE EmptyGroupDB,
                            !.alone = alone ]

\* Worker w goes on with locals c: when this step starts w's call, the calls
\* in progress on the other workers no longer run alone.
GroupLocals(w, c) ==
    [ v \in Workers |->
        IF v = w THEN c
        ELSE IF gpc[w] = "idle" /\ gpc[v] # "idle"
        THEN [gcall[v] EXCEPT !.alone = FALSE, !.pre = EmptyGroupDB]
        ELSE gcall[v] ]

\* A call returns r: the worker is free again.
GroupReturn(w, r) ==
    /\ gpc' = [gpc EXCEPT ![w] = "idle"]
    /\ gcall' = GroupLocals(w, NoGroupCall)
    /\ gret' = r
    /\ UNCHANGED <<authVars, postVars, friendVars, listVars, visVars, oauthVars>>

GroupOK(w, c, count) ==
    GroupReturn(w, [ op |-> c.op, ok |-> TRUE, err |-> "", group |-> c.group,
                     user |-> c.user, name |-> c.name, count |-> count,
                     pre |-> c.pre, alone |-> c.alone ])
GroupFail(w, c, err) ==
    GroupReturn(w, [ op |-> c.op, ok |-> FALSE, err |-> err, group |-> c.group,
                     user |-> c.user, name |-> c.name, count |-> 0,
                     pre |-> c.pre, alone |-> c.alone ])
GroupGoto(w, pc, c) ==
    /\ gpc' = [gpc EXCEPT ![w] = pc]
    /\ gcall' = GroupLocals(w, c)
    /\ gret' = NoGroupRet
    /\ UNCHANGED <<authVars, postVars, friendVars, listVars, visVars, oauthVars>>

\* groupRepository.GetGroupByID, the first statement of every call on a group:
\* the call goes on at pc with the row read, or fails.
GetGroupByID(w, c, pc) ==
    IF LiveGroup(c.group)
    THEN GroupGoto(w, pc, [c EXCEPT !.row = groups[c.group]])
    ELSE GroupFail(w, c, "record not found")

\* groupService.CreateGroup: validation and repo.CreateGroup
CreateGroupCall(w) ==
    /\ GroupBegin(w)
    /\ \E userID \in UserInputs, name \in GroupNameInputs :
          LET c == GroupCall("CreateGroup", Len(groups) + 1, userID, name)
          IN IF userID = ""
             THEN GroupFail(w, [c EXCEPT !.group = 0], "user ID is required") /\ UNCHANGED groups
             ELSE IF name = ""
             THEN GroupFail(w, [c EXCEPT !.group = 0], "group name is required") /\ UNCHANGED groups
             ELSE /\ Len(groups) < MaxGroups
                  /\ groups' = Append(groups,
                         [ creator |-> userID, name |-> name, deleted |-> FALSE ])
                  /\ GroupGoto(w, "create_addmember", c)
    /\ UNCHANGED <<members, gposts>>

\* repo.AddMember of the creator; a failure is logged and the group returned
CreateGroupAddMember(w) ==
    /\ GroupAt(w, "create_addmember")
    /\ LET c == gcall[w]
       IN /\ members' = IF GroupMembersIndexViolated(c.group, c.user)
                        THEN members
                        ELSE AddMember(c.group, c.user, "creator")
          /\ GroupOK(w, c, 0)
    /\ UNCHANGED <<groups, gposts>>

\* groupService.JoinGroup
JoinGroupCall(w) ==
    /\ GroupBegin(w)
    /\ \E groupID \in GroupIdInputs, userID \in Users :
          GetGroupByID(w, GroupCall("JoinGroup", groupID, userID, ""), "join_ismember")
    /\ UNCHANGED <<groups, members, gposts>>

JoinGroupIsMember(w) ==
    /\ GroupAt(w, "join_ismember")
    /\ IF IsMember(gcall[w].group, gcall[w].user)
       THEN GroupFail(w, gcall[w], "already a member of this group")
       ELSE GroupGoto(w, "join_addmember", gcall[w])
    /\ UNCHANGED <<groups, members, gposts>>

JoinGroupAddMember(w) ==
    /\ GroupAt(w, "join_addmember")
    /\ LET c == gcall[w]
       IN IF GroupMembersIndexViolated(c.group, c.user)
          THEN GroupFail(w, c, "duplicate entry") /\ UNCHANGED members
          ELSE /\ Len(members) < MaxMembers
               /\ members' = AddMember(c.group, c.user, "member")
               /\ GroupGoto(w, "join_count", c)
    /\ UNCHANGED <<groups, gposts>>

JoinGroupCount(w) ==
    /\ GroupAt(w, "join_count")
    /\ GroupOK(w, gcall[w], GetGroupMembersCount(gcall[w].group))
    /\ UNCHANGED <<groups, members, gposts>>

\* The creator checks of LeaveGroup and DeleteGroup: group.CreatorID == userID
IsCreatorNever(group, userID) == FALSE
IsCreator(group, userID) == group.creator = userID

\* groupService.LeaveGroup
LeaveGroupCall(w) ==
    /\ GroupBegin(w)
    /\ \E groupID \in GroupIdInputs, userID \in Users :
          GetGroupByID(w, GroupCall("LeaveGroup", groupID, userID, ""), "leave_ismember")
    /\ UNCHANGED <<groups, members, gposts>>

\* repo.IsMember, then the creator check on the group read before
LeaveGroupIsMember(w) ==
    /\ GroupAt(w, "leave_ismember")
    /\ LET c == gcall[w]
       IN IF ~IsMember(c.group, c.user)
          THEN GroupFail(w, c, "not a member of this group")
          ELSE IF IsCreator(c.row, c.user)
          THEN GroupFail(w, c, "creator cannot leave the group")
          ELSE GroupGoto(w, "leave_remove", c)
    /\ UNCHANGED <<groups, members, gposts>>

LeaveGroupRemove(w) ==
    /\ GroupAt(w, "leave_remove")
    /\ members' = RemoveMember(gcall[w].group, gcall[w].user)
    /\ GroupGoto(w, "leave_count", gcall[w])
    /\ UNCHANGED <<groups, gposts>>

LeaveGroupCount(w) ==
    /\ GroupAt(w, "leave_count")
    /\ GroupOK(w, gcall[w], GetGroupMembersCount(gcall[w].group))
    /\ UNCHANGED <<groups, members, gposts>>

\* groupService.CreateGroupPost (no media URLs: the loop over them is empty)
CreateGroupPostCall(w) ==
    /\ GroupBegin(w)
    /\ \E groupID \in GroupIdInputs, userID \in UserInputs :
          GetGroupByID(w, GroupCall("CreateGroupPost", groupID, userID, ""), "gpost_ismember")
    /\ UNCHANGED <<groups, members, gposts>>

CreateGroupPostIsMember(w) ==
    /\ GroupAt(w, "gpost_ismember")
    /\ IF ~IsMember(gcall[w].group, gcall[w].user)
       THEN GroupFail(w, gcall[w], "not a member of this group")
       ELSE GroupGoto(w, "gpost_create", gcall[w])
    /\ UNCHANGED <<groups, members, gposts>>

\* repo.CreatePost, then repo.GetPostMedia (a read of a table not kept here)
CreateGroupPostCreate(w) ==
    /\ GroupAt(w, "gpost_create")
    /\ Len(gposts) < MaxGroupPosts
    /\ gposts' = Append(gposts, [ group |-> gcall[w].group, author |-> gcall[w].user ])
    /\ GroupOK(w, gcall[w], Len(gposts) + 1)
    /\ UNCHANGED <<groups, members>>

\* groupService.GetGroupPosts: IsMember is asked only for a non-empty user id
GetGroupPostsCall(w) ==
    /\ GroupBegin(w)
    /\ \E groupID \in GroupIdInputs, userID \in UserInputs :
          GetGroupByID(w, GroupCall("GetGroupPosts", groupID, userID, ""), "gposts_ismember")
    /\ UNCHANGED <<groups, members, gposts>>

GetGroupPostsIsMember(w) ==
    /\ GroupAt(w, "gposts_ismember")
    /\ LET c == gcall[w]
           isMember == IF c.user # "" THEN IsMember(c.group, c.user) ELSE FALSE
       IN IF ~isMember
          THEN GroupFail(w, c, "not a member of this group")
          ELSE GroupGoto(w, "gposts_list", c)
    /\ UNCHANGED <<groups, members, gposts>>

\* repo.GetGroupPosts: the count of the group's posts (the rows are then
\* hydrated by reads of tables not kept here)
GetGroupPostsList(w) ==
    /\ GroupAt(w, "gposts_list")
    /\ GroupOK(w, gcall[w],
           Cardinality({ i \in DOMAIN gposts : gposts[i].group = gcall[w].group }))
    /\ UNCHANGED <<groups, members, gposts>>

\* groupService.UpdateGroup
UpdateGroupCall(w) ==
    /\ GroupBegin(w)
    /\ \E groupID \in GroupIdInputs, userID \in Users, name \in {"", "n2"} :
          GetGroupByID(w, GroupCall("UpdateGroup", groupID, userID, name), "updg_member")
    /\ UNCHANGED <<groups, members, gposts>>

\* repo.GetMemberByID (First: one of the live rows of the pair, in primary-key
\* order, the keys being random UUIDs), the role check, the fields set
UpdateGroupMember(w) ==
    /\ GroupAt(w, "updg_member")
    /\ LET c == gcall[w]
       IN IF LiveMembersOf(c.group, c.user) = {}
          THEN GroupFail(w, c, "not authorized to update this group")
          ELSE \E i \in LiveMembersOf(c.group, c.user) :
                  IF members[i].role # "creator" /\ members[i].role # "admin"
                  THEN GroupFail(w, c, "not authorized to update this group")
                  ELSE GroupGoto(w, "updg_save",
                           [c EXCEPT !.row.name = IF c.name # "" THEN c.name ELSE @])
    /\ UNCHANGED <<groups, members, gposts>>

\* repo.UpdateGroup: db.Save(group) writes every column of the struct read
UpdateGroupSave(w) ==
    /\ GroupAt(w, "updg_save")
    /\ groups' = [groups EXCEPT ![gcall[w].group] = gcall[w].row]
    /\ GroupOK(w, gcall[w], 0)
    /\ UNCHANGED <<members, gposts>>

\* Table groups after the creator check of DeleteGroup refused the caller: the
\* check returns before repo.DeleteGroup is reached, the row is as it was.
GroupsAfterRefusedDeleteDeleted(groupID) == [groups EXCEPT ![groupID].deleted = TRUE]
GroupsAfterRefusedDelete(groupID) == groups

\* groupService.DeleteGroup: GetGroupByID and the creator check
DeleteGroupCall(w) ==
    /\ GroupBegin(w)
    /\ \E groupID \in GroupIdInputs, userID \in Users :
          LET c == GroupCall("DeleteGroup", groupID, userID, "")
          IN IF ~LiveGroup(groupID)
             THEN GroupFail(w, c, "record not found") /\ UNCHANGED groups
             ELSE IF ~IsCreator(groups[groupID], userID)
             THEN /\ GroupFail(w, c, "not authorized to delete this group")
                  /\ groups' = GroupsAfterRefusedDelete(groupID)
             ELSE GroupGoto(w, "delg_delete", c) /\ UNCHANGED groups
    /\ UNCHANGED <<members, gposts>>

\* repo.DeleteGroup (soft delete of the group row; its members and posts stay)
DeleteGroupDelete(w) ==
    /\ GroupAt(w, "delg_delete")
    /\ groups' = [groups EXCEPT ![gcall[w].group].deleted = TRUE]
    /\ GroupOK(w, gcall[w], 0)
    /\ UNCHANGED <<members, gposts>>

GroupNext ==
    \E w \in Workers :
        \/ CreateGroupCall(w)
        \/ CreateGroupAddMember(w)
        \/ JoinGroupCall(w)
        \/ JoinGroupIsMember(w)
        \/ JoinGroupAddMember(w)
        \/ JoinGroupCount(w)
        \/ LeaveGroupCall(w)
        \/ LeaveGroupIsMember(w)
        \/ LeaveGroupRemove(w)
        \/ LeaveGroupCount(w)
        \/ CreateGroupPostCall(w)
        \/ CreateGroupPostIsMember(w)
        \/ CreateGroupPostCreate(w)
        \/ GetGroupPostsCall(w)
        \/ GetGroupPostsIsMember(w)
        \/ GetGroupPostsList(w)
        \/ UpdateGroupCall(w)
        \/ UpdateGroupMember(w)
        \/ UpdateGroupSave(w)
        \/ DeleteGroupCall(w)
        \/ DeleteGroupDelete(w)

(***************************************************************************)
(* PAGINATION OF THE LIST OPERATIONS                                       *)
(***************************************************************************)

MaxPage == 3         \* the largest page number asked for

\* The page and limit of a request (int32 fields, widened to int: no product
\* or sum below leaves the 64 bits of int) and the total row count of the
\* query.  A field missing from the request is 0.
PageInputs == -1..MaxPage
LimitInputs == {-1, 0, 1, 3, 10, 100, 101}
CountInputs == {0, 1, 10, 20, 25}

Abs(n) == IF n < 0 THEN -n ELSE n

\* Go's integer division, truncated toward zero (the divisor is not 0)
GoDiv(a, b) ==
    LET q == Abs(a) \div Abs(b)
    IN IF (a < 0) # (b < 0) THEN -q ELSE q

\* postService.GetPosts / GetComments: "if page < 1 { page = 1 }" and
\* "if limit < 1 || limit > 100 { limit = 10 }"
CoercePage(page) == IF page < 1 THEN 1 ELSE page
CoerceLimit(limit) == IF limit < 1 \/ limit > 100 THEN 10 ELSE limit

\* The repositories: offset := (page - 1) * limit
Offset(page, limit) == (page - 1) * limit

\* The services: totalPages := int32((count + int64(limit) - 1) / int64(limit))
TotalPagesFloor(count, limit) == GoDiv(count, limit)
TotalPages(count, limit) == GoDiv(count + limit - 1, limit)

NoListRet ==
    [ op |-> "", page |-> 0, limit |-> 0, count |-> 0, status |-> "",
      effPage |-> 0, effLimit |-> 0, offset |-> 0, totalPages |-> 0 ]

ListInit == lret = NoListRet

\* The page arithmetic of a list call that uses page p and limit l for its
\* query and its total pages: a division by zero is a run-time panic, the
\* call returns nothing.
Paging(op, page, limit, count, p, l) ==
    IF l = 0
    THEN [ NoListRet EXCEPT !.op = op, !.page = page, !.limit = limit, !.count = count,
                            !.status = "panic", !.effPage = p, !.effLimit = l ]
    ELSE [ op |-> op, page |-> page, limit |-> limit, count |-> count, status |-> "ok",
           effPage |-> p, effLimit |-> l, offset |-> Offset(p, l),
           totalPages |-> TotalPages(count, l) ]

\* A list operation that coerces page and limit (posts service)
CoercingList(op) ==
    /\ \E page \in PageInputs, limit \in LimitInputs, count \in CountInputs :
          lret' = Paging(op, page, limit, count, CoercePage(page), CoerceLimit(limit))
    /\ UNCHANGED <<authVars, postVars, friendVars, groupVars, visVars, oauthVars>>

\* A list operation that hands page and limit on as they come (friends and
\* groups services, their controllers likewise)
PlainList(op) ==
    /\ \E page \in PageInputs, limit \in LimitInputs, count \in CountInputs :
          lret' = Paging(op, page, limit, count, page, limit)
    /\ UNCHANGED <<authVars, postVars, friendVars, groupVars, visVars, oauthVars>>

\* The list operations of the posts service, and those of the friends and
\* groups services
CoercingOps == {"GetPosts", "GetComments"}
PlainOps ==
    {"GetFriends", "GetFriendRequests", "GetBlockedUsers",
     "GetGroups", "GetGroupMembers", "GetGroupPosts"}

PagingNext ==
    \/ \E op \in CoercingOps : CoercingList(op)
    \/ \E op \in PlainOps : PlainList(op)

(***************************************************************************)
(* VISIBILITY RESOLVER, called on its own                                  *)
(***************************************************************************)

\* The visibility flags the resolver is tried on: the two CreatePost admits,
\* one it refuses and the empty flag.
VisibilityInputs == {"public", "private", "friends", ""}

NoVisRet ==
    [ done |-> FALSE, visibility |-> "", author |-> "", group |-> "", viewer |-> "",
      friends |-> {}, visible |-> FALSE ]

VisInit == vret = NoVisRet

\* One call of isPostVisibleToUser: it reads its three arguments and answers.
ResolveVisibility ==
    /\ \E visibility \in VisibilityInputs, author \in Users, group \in GroupInputs,
          viewer \in UserInputs, friendIDs \in SUBSET Users :
          vret' = [ done |-> TRUE, visibility |-> visibility, author |-> author,
                    group |-> group, viewer |-> viewer, friends |-> friendIDs,
                    visible |-> isPostVisibleToUser(
                                    [visibility |-> visibility, author |-> author,
                                     group |-> group], viewer, friendIDs) ]
    /\ UNCHANGED <<authVars, postVars, friendVars, groupVars, listVars, oauthVars>>

VisibilityNext == ResolveVisibility

(***************************************************************************)
(* OAUTH STATE TOKENS (authService.stateStore)                             *)
(***************************************************************************)

StateTokens == {"t1", "t2"}
MaxOAuthCalls == 4    \* login and callback calls in one run
MaxClock == 15        \* minutes the clock runs for
ClockStep == 5        \* minutes between two readings of the clock
StateTTL == 10        \* 10*time.Minute
NoTime == -1          \* the key is not in the map

NoOAuthCall == [ op |-> "", token |-> "", timestamp |-> NoTime, again |-> FALSE ]
NoOAuthRet == [ op |-> "", token |-> "", valid |-> FALSE, again |-> FALSE ]

\* NewAuthService: stateStore: make(map[string]time.Time)
OAuthInit ==
    /\ stateStore = [t \in StateTokens |-> NoTime]
    /\ oclock = 0
    /\ opc = [w \in Workers |-> "idle"]
    /\ ocall = [w \in Workers |-> NoOAuthCall]
    /\ oret = NoOAuthRet
    /\ ocalls = 0
    /\ issuedAt = [t \in StateTokens |-> NoTime]
    /\ accepts = [t \in StateTokens |-> 0]
    /\ presented = {}
    /\ crashed = FALSE

OAuthBegin(w) ==
    /\ ~crashed
    /\ opc[w] = "idle"
    /\ ocalls < MaxOAuthCalls
    /\ ocalls' = ocalls + 1
OAuthAt(w, pc) ==
    /\ ~crashed
    /\ opc[w] = pc
    /\ UNCHANGED ocalls

OAuthGoto(w, pc, c) ==
    /\ opc' = [opc EXCEPT ![w] = pc]
    /\ ocall' = [ocall EXCEPT ![w] = c]
    /\ oret' = NoOAuthRet
    /\ UNCHANGED <<oclock, crashed>>
    /\ UNCHANGED <<authVars, postVars, friendVars, groupVars, listVars, visVars>>

OAuthReturn(w, r) ==
    /\ opc' = [opc EXCEPT ![w] = "idle"]
    /\ ocall' = [ocall EXCEPT ![w] = NoOAuthCall]
    /\ oret' = r
    /\ UNCHANGED <<oclock, crashed>>
    /\ UNCHANGED <<authVars, postVars, friendVars, groupVars, listVars, visVars>>

\* generateStateToken: 32 bytes of crypto/rand, a token nobody has seen
FreshTokens ==
    { t \in StateTokens :
        /\ issuedAt[t] = NoTime
        /\ t \notin presented
        /\ \A w \in Workers : ocall[w].token # t }

\* authService.GoogleLogin / MicrosoftLogin up to the token's generation
GoogleLoginCall(w) ==
    /\ OAuthBegin(w)
    /\ \E state \in FreshTokens :
          OAuthGoto(w, "login_store", [NoOAuthCall EXCEPT !.op = "GoogleLogin", !.token = state])
    /\ UNCHANGED <<stateStore, issuedAt, accepts, presented>>

\* s.stateStore[state] = time.Now(), and the answer with the token
GoogleLoginStore(w) ==
    /\ OAuthAt(w, "login_store")
    /\ LET state == ocall[w].token
       IN /\ stateStore' = [stateStore EXCEPT ![state] = oclock]
          /\ issuedAt' = [issuedAt EXCEPT ![state] = oclock]
          /\ OAuthReturn(w, [NoOAuthRet EXCEPT !.op = "GoogleLogin", !.token = state])
    /\ UNCHANGED <<accepts, presented>>

\* A callback presents a token: one a login answered with, or one nobody
\* issued (a token still inside a login call is known to no client).
ValidateStateTokenCall(w) ==
    /\ OAuthBegin(w)
    /\ \E state \in StateTokens :
          /\ \A v \in Workers : ocall[v].op = "GoogleLogin" => ocall[v].token # state
          /\ OAuthGoto(w, "validate_lookup",
                 [NoOAuthCall EXCEPT !.op = "ValidateStateToken", !.token = state,
                                     !.again = (state \in presented)])
    /\ UNCHANGED <<stateStore, issuedAt, accepts, presented>>

\* timestamp, exists := s.stateStore[state]; if !exists { return false }
ValidateStateTokenLookup(w) ==
    /\ OAuthAt(w, "validate_lookup")
    /\ LET c == ocall[w]
       IN IF stateStore[c.token] = NoTime
          THEN /\ presented' = presented \cup {c.token}
               /\ OAuthReturn(w, [NoOAuthRet EXCEPT !.op = "ValidateStateToken",
                                                    !.token = c.token, !.again = c.again])
          ELSE /\ presented' = presented
               /\ OAuthGoto(w, "validate_delete", [c EXCEPT !.timestamp = stateStore[c.token]])
    /\ UNCHANGED <<stateStore, issuedAt, accepts>>

\* time.Since(timestamp) > 10*time.Minute decides the answer; either way
\* delete(s.stateStore, state), which is no error for a key already gone
ValidateStateTokenDelete(w) ==
    /\ OAuthAt(w, "validate_delete")
    /\ LET c == ocall[w]
           expired == oclock - c.timestamp > StateTTL
       IN /\ stateStore' = [stateStore EXCEPT ![c.token] = NoTime]
          /\ accepts' = [accepts EXCEPT ![c.token] = IF expired THEN @ ELSE @ + 1]
          /\ presented' = presented \cup {c.token}
          /\ OAuthReturn(w, [NoOAuthRet EXCEPT !.op = "ValidateStateToken",
                                               !.token = c.token, !.again = c.again,
                                               !.valid = ~expired])
    /\ UNCHANGED issuedAt

\* Time passes.
Tick ==
    /\ ~crashed
    /\ oclock + ClockStep <= MaxClock
    /\ oclock' = oclock + ClockStep
    /\ oret' = NoOAuthRet
    /\ UNCHANGED <<stateStore, opc, ocall, ocalls, issuedAt, accepts, presented, crashed>>
    /\ UNCHANGED <<authVars, postVars, friendVars, groupVars, listVars, visVars>>

\* stateStore is a plain map shared by the goroutines that serve the calls,
\* with no lock: when one call writes the map while another reads or writes
\* it, the runtime may stop the process (fatal error: concurrent map writes /
\* concurrent map read and map write) or let both accesses through.
MapWrites == {"login_store", "validate_delete"}
MapAccesses == MapWrites \cup {"validate_lookup"}
ConcurrentMapAccess ==
    /\ ~crashed
    /\ \E w \in Workers :
          \E v \in Workers \ {w} : opc[w] \in MapWrites /\ opc[v] \in MapAccesses
    /\ crashed' = TRUE
    /\ oret' = NoOAuthRet
    /\ UNCHANGED <<stateStore, oclock, opc, ocall, ocalls, issuedAt, accepts, presented>>
    /\ UNCHANGED <<authVars, postVars, friendVars, groupVars, listVars, visVars>>

OAuthNext ==
    \/ \E w \in Workers :
          \/ GoogleLoginCall(w)
          \/ GoogleLoginStore(w)
          \/ ValidateStateTokenCall(w)
          \/ ValidateStateTokenLookup(w)
          \/ ValidateStateTokenDelete(w)
    \/ Tick
    \/ ConcurrentMapAccess

LikeNext ==
    \E w \in Workers :
        \/ CreatePost(w)
        \/ LikePostCall(w)
        \/ LikePostFind(w)
        \/ LikePostCreate(w)
        \/ LikePostIncrement(w)
        \/ LikePostReread(w)
        \/ UnlikePostCall(w)
        \/ UnlikePostFind(w)
        \/ UnlikePostDelete(w)
        \/ UnlikePostDecrement(w)
        \/ UnlikePostReread(w)
        \/ DeletePostCall(w)
        \/ DeletePostDelete(w)

\* The calls that create, edit and delete posts.
EditNext ==
    \E w \in Workers :
        \/ CreatePost(w)
        \/ UpdatePostCall(w)
        \/ UpdatePostSave(w)
        \/ DeletePostCall(w)
        \/ DeletePostDelete(w)

\* The calls that create and delete posts and comments, and list comments.
CommentNext ==
    \E w \in Workers :
        \/ CreatePost(w)
        \/ AddCommentCall(w)
        \/ AddCommentCreate(w)
        \/ AddCommentIncrement(w)
        \/ DeleteCommentCall(w)
        \/ DeleteCommentFindPost(w)
        \/ DeleteCommentDelete(w)
        \/ DeleteCommentDecrement(w)
        \/ DeletePostCall(w)
        \/ DeletePostDelete(w)
        \/ GetComments(w)

\* The calls that create, edit and delete posts, and the listing.
ListNext ==
    \E w \in Workers :
        \/ CreatePost(w)
        \/ UpdatePostCall(w)
        \/ UpdatePostSave(w)
        \/ DeletePostCall(w)
        \/ DeletePostDelete(w)
        \/ GetPosts(w)

Init ==
    AuthInit /\ PostInit /\ FriendInit /\ GroupInit /\ ListInit /\ VisInit /\ OAuthInit

AuthSpec == Init /\ [][AuthNext]_vars
LikeSpec == Init /\ [][LikeNext]_vars
PostSpec == Init /\ [][PostNext]_vars
EditSpec == Init /\ [][EditNext]_vars
ListSpec == Init /\ [][ListNext]_vars
PagingSpec == Init /\ [][PagingNext]_vars
VisibilitySpec == Init /\ [][VisibilityNext]_vars
OAuthSpec == Init /\ [][OAuthNext]_vars
CommentSpec == Init /\ [][CommentNext]_vars
GroupSpec == Init /\ [][GroupNext]_vars

\* The three services together.  Each is a process of its own over a database
\* of its own and none calls another: a behaviour of the three is an
\* interleaving of one behaviour of each, and what holds of one service's
\* tables and results in the interleaving is what holds of them in that
\* service's behaviour.  A behaviour of ServicesSpec is a behaviour of one of
\* the services, whichever takes the first call.
ServicesNext ==
    \/ fcalls = 0 /\ gcalls = 0 /\ PostNext
    \/ pcalls = 0 /\ gcalls = 0 /\ FriendNext
    \/ pcalls = 0 /\ fcalls = 0 /\ GroupNext
ServicesSpec == Init /\ [][ServicesNext]_vars
FriendSpec == Init /\ [][FriendNext]_vars

(***************************************************************************)
(* CLAIMS ABOUT THE POSTS SERVICE                                          *)
(***************************************************************************)

PostsQuiescent == \A w \in Workers : ppc[w] = "idle"

\* C1: in every reachable state, also those reached by interleaving concurrent
\* LikePost calls for one post and user, at most one non-deleted Like row
\* exists per (post id, user id) pair.
C1_AtMostOneLiveLikePerPair ==
    \A p \in DOMAIN posts, u \in Users : Cardinality(LiveLikesOf(p, u)) <= 1

\* Two LikePost calls for one pair overlapped: one wrote the row and is still
\* running, the other passed the same check and was refused by the index.
C1_Witness ==
    /\ pret.op = "LikePost" /\ pret.code = "Internal"
    /\ \E w \in Workers :
          /\ ppc[w] \in {"like_incr", "like_reread"}
          /\ pcall[w].post = pret.post /\ pcall[w].user = pret.user
    /\ Cardinality(LiveLikesOf(pret.post, pret.user)) = 1

\* C2: GetPost on a private post by a viewer who is not its author (GetPost
\* knows no friend list), the anonymous viewer included, answers
\* PermissionDenied, whatever the other fields of the post are.
C2_PrivatePostDeniedToOthers ==
    (pret.op = "GetPost" /\ pret.visibility = "private" /\ pret.user # pret.author)
        => pret.code = "PermissionDenied"

\* C3: whenever no post call is in flight, every live post's likes_count is the
\* number of its non-deleted Like rows and its comments_count the number of its
\* non-deleted Comment rows (no counter update fails in this model).
C3_CountersMatchWhenQuiescent ==
    PostsQuiescent =>
        \A p \in DOMAIN posts :
            ~posts[p].deleted =>
                /\ posts[p].likes_count = Cardinality(LiveLikesOfPost(p))
                /\ posts[p].comments_count = Cardinality(LiveCommentsOfPost(p))

(***************************************************************************)
(* CLAIMS ABOUT THE AUTH INTERCEPTORS                                      *)
(***************************************************************************)

C5_AcceptMakesFriends ==
    /\ (fret.op = "AcceptFriendRequest" /\ fret.ok /\ fret.alone) =>
          LET a == requests[fret.req].sender
              b == requests[fret.req].receiver
          IN /\ fret.pre.requests[fret.req].status = "pending"
             /\ b = fret.user
             /\ requests[fret.req].status = "accepted"
             /\ friendships[<<a, b>>] = 1
             /\ friendships[<<b, a>>] = 1
             /\ CheckFriendship(DB, a, b) = "friends"
             /\ CheckFriendship(DB, b, a) = "friends"
    /\ (fret.op = "CheckFriendship" /\ fret.alone /\ fret.user # fret.other) =>
          fret.status = CheckFriendship(DB, fret.user, fret.other)

C7_OnlyReceiverOnlyPending ==
    /\ [](  ( /\ fret.op \in {"AcceptFriendRequest", "RejectFriendRequest"}
              /\ fret.alone
              /\ fret.req \in DOMAIN fret.pre.requests
              /\ \/ fret.pre.requests[fret.req].receiver # fret.user
                 \/ fret.pre.requests[fret.req].status # "pending" )
            => /\ ~fret.ok
               /\ requests = fret.pre.requests
               /\ friendships = fret.pre.friendships )
    /\ [][ \A i \in DOMAIN requests :
              requests'[i].status # requests[i].status
                 => /\ requests[i].status = "pending"
                    /\ requests'[i].status \in {"accepted", "rejected"} ]_vars

\* C8: once RejectFriendRequest has answered success for a request, the
\* request is rejected in every later state and no Friendship row is written
\* on its account, whatever AcceptFriendRequest call runs beside it.
C8_RejectedStaysRejected ==
    \A r \in rejectedOK : requests[r].status = "rejected" /\ r \notin viaRequest

\* C9: when BlockUser(a, b) returns success, no other call having run beside
\* it, no Friendship row joins a and b in either direction; BlockUser(a, b)
\* called while a has blocked b fails, and UnblockUser(a, b) called while a
\* has not blocked b fails, and the three tables are then as they were.
C9_BlockUnblockContract ==
    LET a == fret.user
        b == fret.other
    IN fret.alone =>
       /\ (fret.op = "BlockUser" /\ fret.ok) =>
             friendships[<<a, b>>] = 0 /\ friendships[<<b, a>>] = 0
       /\ (fret.op = "BlockUser" /\ fret.pre.blocks[<<a, b>>] > 0) =>
             ~fret.ok /\ DB = fret.pre
       /\ (fret.op = "UnblockUser" /\ fret.pre.blocks[<<a, b>>] = 0) =>
             ~fret.ok /\ DB = fret.pre

C11_NoRequestAfterRejected ==
    (fret.op = "SendFriendRequest" /\ fret.alone) =>
        ( (\E i \in DOMAIN fret.pre.requests :
              /\ fret.pre.requests[i].status = "rejected"
              /\ fret.pre.requests[i].sender = fret.user
              /\ fret.pre.requests[i].receiver = fret.other)
          => ~fret.ok /\ requests = fret.pre.requests )

(***************************************************************************)
(* CONTRACTS OF THE POST OPERATIONS                                        *)
(***************************************************************************)

\* C12: from every reachable state, a LikePost(p, u) on a live post p, no
\* other call running beside it, answers AlreadyExists with Like rows and
\* likes_count as they were exactly when a live Like of (p, u) exists; in
\* every other case (a Like of (p, u) that was unliked included) it adds the
\* Like row, raises likes_count by one and returns the resulting count.
C12_LikePostContract ==
    ( /\ pret.op = "LikePost" /\ pret.alone
      /\ pret.user # ""
      /\ pret.post \in DOMAIN pret.pre.posts
      /\ ~pret.pre.posts[pret.post].deleted )
    => LET p == pret.post
           u == pret.user
           pre == pret.pre
           liked == \E i \in DOMAIN pre.likes :
                       /\ pre.likes[i].post = p /\ pre.likes[i].user = u
                       /\ ~pre.likes[i].deleted
       IN IF liked
          THEN pret.code = "AlreadyExists" /\ PostDB = pre
          ELSE /\ pret.code = "OK"
               /\ likes = Append(pre.likes, [post |-> p, user |-> u, deleted |-> FALSE])
               /\ posts = [pre.posts EXCEPT ![p].likes_count = @ + 1]
               /\ comments = pre.comments
               /\ pret.count = posts[p].likes_count

C14_AuthorOnlyUpdateDelete ==
    /\ []( ( /\ pret.op \in {"UpdatePost", "DeletePost"} /\ pret.alone
             /\ pret.post # NoId /\ pret.user # ""
             /\ pret.op = "UpdatePost" =>
                    /\ pret.content # ""
                    /\ pret.visibility \in {"", "public", "private"} )
           => LET p == pret.post
                  pre == pret.pre
              IN IF p \notin DOMAIN pre.posts \/ pre.posts[p].deleted
                 THEN pret.code = "NotFound" /\ PostDB = pre
                 ELSE IF pre.posts[p].author # pret.user
                 THEN pret.code = "PermissionDenied" /\ PostDB = pre
                 ELSE /\ pret.code = "OK"
                      /\ likes = pre.likes /\ comments = pre.comments
                      /\ pret.op = "DeletePost" =>
                             posts = [pre.posts EXCEPT ![p].deleted = TRUE]
                      /\ pret.op = "UpdatePost" =>
                             posts = [pre.posts EXCEPT
                                        ![p].content = pret.content,
                                        ![p].visibility = pret.visibility] )
    /\ [][ \A id \in DOMAIN posts :
              ( \/ posts'[id].content # posts[id].content
                \/ posts'[id].visibility # posts[id].visibility
                \/ posts'[id].deleted # posts[id].deleted )
              => \E w \in Workers :
                    /\ ppc[w] \in {"updp_save", "delp_delete"}
                    /\ ppc'[w] = "idle"
                    /\ pcall[w].post = id
                    /\ pcall[w].user = posts[id].author ]_vars

\* an edit of u1's post asked for by u2 and refused
C14_Witness ==
    /\ pret.op = "UpdatePost" /\ pret.code = "PermissionDenied" /\ pret.alone
    /\ pret.user = "u2"
    /\ LivePost(pret.post)
    /\ posts[pret.post].author = "u1"
    /\ posts[pret.post].content = "edited"

(***************************************************************************)
(* CONTRACTS OF THE GROUP OPERATIONS                                       *)
(***************************************************************************)

\* The user had a live membership of the group in tables db.
LiveMemberIn(db, groupID, userID) ==
    \E i \in DOMAIN db.members :
        /\ db.members[i].group = groupID
        /\ db.members[i].user = userID
        /\ ~db.members[i].deleted

\* The user had a membership of the group in tables db and every one is deleted.
LeftMemberIn(db, groupID, userID) ==
    /\ ~LiveMemberIn(db, groupID, userID)
    /\ \E i \in DOMAIN db.members :
          db.members[i].group = groupID /\ db.members[i].user = userID

\* C15: a CreateGroupPost or GetGroupPosts call that ran alone succeeded only
\* if the requester was a live member of the group when the call was made (so
\* a user who never joined, a user who left and the anonymous caller "" are
\* refused), and a refused CreateGroupPost left the posts as they were.
C15_PostsOnlyForLiveMembers ==
    (gret.op \in {"CreateGroupPost", "GetGroupPosts"} /\ gret.alone) =>
        /\ gret.ok => (gret.user # "" /\ LiveMemberIn(gret.pre, gret.group, gret.user))
        /\ (gret.op = "CreateGroupPost" /\ ~gret.ok) => gposts = gret.pre.gposts

\* A user who left the group is refused.
C15_Witness ==
    /\ gret.op = "CreateGroupPost"
    /\ gret.alone
    /\ ~gret.ok
    /\ gret.err = "not a member of this group"
    /\ LeftMemberIn(gret.pre, gret.group, gret.user)

\* The group was live in tables db and the user is its creator.
CreatorOfLiveGroupIn(db, groupID, userID) ==
    /\ groupID \in DOMAIN db.groups
    /\ ~db.groups[groupID].deleted
    /\ db.groups[groupID].creator = userID

LiveMemberUsers(groupID) == { u \in Users : IsMember(groupID, u) }

\* C17: a JoinGroup that ran alone for a user who was a live member failed and
\* added no membership; a LeaveGroup that ran alone for a user who was not a
\* live member failed and removed nothing; and a successful JoinGroup or
\* LeaveGroup that ran alone returned the number of live members the group has
\* after the change.
C17_JoinLeaveContract ==
    (gret.op \in {"JoinGroup", "LeaveGroup"} /\ gret.alone) =>
        /\ (gret.op = "JoinGroup" /\ LiveMemberIn(gret.pre, gret.group, gret.user)) =>
              (~gret.ok /\ members = gret.pre.members)
        /\ (gret.op = "LeaveGroup" /\ ~LiveMemberIn(gret.pre, gret.group, gret.user)) =>
              (~gret.ok /\ members = gret.pre.members)
        /\ gret.ok => gret.count = Cardinality(LiveMemberUsers(gret.group))

\* C18: in every reachable state, at most one non-deleted GroupMember row
\* exists per (group, user) pair.
C18_OneLiveMembershipPerPair ==
    \A groupID \in GroupIdInputs, userID \in Users :
        Cardinality(LiveMembersOf(groupID, userID)) <= 1

(***************************************************************************)
(* ERRORS AND MUTATIONS                                                    *)
(***************************************************************************)

\* The status codes the posts service gives its validation, not-found,
\* duplicate-state and authorization errors.
PostRefusals == {"InvalidArgument", "NotFound", "AlreadyExists", "PermissionDenied"}

\* C19: a posts, friends or groups call that ran alone and returned a
\* validation, not-found, duplicate-state or authorization error left every
\* stored row and counter exactly as it was when the call was made.
C19_RefusedCallsMutateNothing ==
    /\ (pret.alone /\ pret.code \in PostRefusals) => PostDB = pret.pre
    /\ (fret.alone /\ fret.op # "" /\ ~fret.ok) => DB = fret.pre
    /\ (gret.alone /\ gret.op # "" /\ ~gret.ok) => GroupDB = gret.pre

\* A member who is not the creator is refused the deletion of a group.
C19_Witness ==
    /\ gret.op = "DeleteGroup"
    /\ gret.alone
    /\ gret.err = "not authorized to delete this group"
    /\ LiveMemberIn(gret.pre, gret.group, gret.user)
    /\ LiveGroup(gret.group)

(***************************************************************************)
(* THE LISTING OF POSTS                                                    *)
(***************************************************************************)

\* C20: a GetPosts by an authenticated viewer with no author-id filter, no
\* group-id filter and a visibility filter other than public lists every live
\* public post, every live private post of one of the viewer's friends and
\* every live post of the viewer, and no private post of any other author.
C20_FriendOwnerVisibleListing ==
    (/\ pret.op = "GetPosts"
     /\ pret.user # ""
     /\ pret.filter.author = ""
     /\ pret.filter.group = ""
     /\ pret.filter.visibility # "public") =>
        /\ pret.list \subseteq { i \in DOMAIN posts : LivePost(i) }
        /\ \A i \in DOMAIN posts :
              LivePost(i) =>
                 /\ posts[i].visibility = "public" => i \in pret.list
                 /\ (posts[i].visibility = "private" /\ posts[i].author \in pret.friends)
                       => i \in pret.list
                 /\ posts[i].author = pret.user => i \in pret.list
                 /\ (/\ posts[i].visibility = "private"
                     /\ posts[i].author \notin pret.friends
                     /\ posts[i].author # pret.user) => i \notin pret.list

(***************************************************************************)
(* PAGINATION                                                              *)
(***************************************************************************)

\* n is the ceiling of count / limit (limit > 0)
IsCeiling(n, count, limit) ==
    /\ n * limit >= count
    /\ (n - 1) * limit < count \/ (n = 0 /\ count = 0)

\* C21: GetPosts and GetComments use a page below 1 as 1 and a limit outside
\* [1,100] as 10, the offset is (page-1) times the effective limit, and the
\* total pages are the ceiling of the total count over the effective limit
\* (limit 10: count 25 gives 3, count 20 gives 2, count 0 gives 0).
C21_PostsPagination ==
    lret.op \in {"GetPosts", "GetComments"} =>
        /\ lret.status = "ok"
        /\ lret.effPage = (IF lret.page < 1 THEN 1 ELSE lret.page)
        /\ lret.effLimit = (IF lret.limit \in 1..100 THEN lret.limit ELSE 10)
        /\ lret.offset = (lret.effPage - 1) * lret.effLimit
        /\ IsCeiling(lret.totalPages, lret.count, lret.effLimit)
        /\ (lret.effLimit = 10 /\ lret.count = 25) => lret.totalPages = 3
        /\ (lret.effLimit = 10 /\ lret.count = 20) => lret.totalPages = 2
        /\ lret.count = 0 => lret.totalPages = 0

\* GetComments with limit 0 and 25 comments: limit 10, three pages.
C21_Witness ==
    /\ lret.op = "GetComments"
    /\ lret.limit = 0
    /\ lret.page = 0
    /\ lret.count = 25
    /\ lret.totalPages = 3

\* C22: every list operation completes for any page and limit, with an
\* effective limit between 1 and 100 (10 when the given limit is 0 or
\* missing), and returns the total count and the total pages of that limit.
C22_EveryListCompletes ==
    lret.op # "" =>
        /\ lret.status = "ok"
        /\ lret.effLimit \in 1..100
        /\ lret.limit = 0 => lret.effLimit = 10
        /\ IsCeiling(lret.totalPages, lret.count, lret.effLimit)

(***************************************************************************)
(* POSTS AND THEIR COMMENTS                                                *)
(***************************************************************************)

\* C23: every non-deleted Comment references a non-deleted Post, and a
\* GetComments of a deleted post returns no comment.
C23_DeletePostCascades ==
    /\ \A c \in DOMAIN comments : LiveComment(c) => LivePost(comments[c].post)
    /\ (pret.op = "GetComments" /\ pret.code = "OK" /\ ~LivePost(pret.post))
          => pret.list = {}

(***************************************************************************)
(* RELATIONSHIP STATES OF A PAIR                                           *)
(***************************************************************************)

\* C24: in every reachable state in which a BlockedUser row exists between a
\* and b (in either direction), no Friendship row exists between a and b.
C24_BlockedExcludesFriends ==
    \A a \in Users, b \in Users :
        (blocks[<<a, b>>] > 0 \/ blocks[<<b, a>>] > 0) =>
            (friendships[<<a, b>>] = 0 /\ friendships[<<b, a>>] = 0)

\* C25: whenever no friend operation is in flight the Friendship rows are
\* symmetric, a live row (a,b) exists if and only if a live row (b,a) exists,
\* and only while some request between a and b has status accepted.
C25_FriendshipsSymmetricWhenIdle ==
    (\A w \in Workers : fpc[w] = "idle") =>
        \A a \in Users, b \in Users :
            /\ friendships[<<a, b>>] > 0 <=> friendships[<<b, a>>] > 0
            /\ friendships[<<a, b>>] > 0 =>
                  \E r \in DOMAIN requests :
                      /\ requests[r].status = "accepted"
                      /\ {requests[r].sender, requests[r].receiver} = {a, b}

\* ---------------------------------------------------------------------------
\* THE COUNTERS OF A POST
\* ---------------------------------------------------------------------------

\* C26: in every reachable state the likes_count and the comments_count of
\* every post are at least zero, also while UnlikePost or DeleteComment calls
\* overlap.
C26_CountersNeverNegative ==
    \A p \in DOMAIN posts :
        /\ posts[p].likes_count >= 0
        /\ posts[p].comments_count >= 0

\* ---------------------------------------------------------------------------
\* PENDING REQUESTS OF A PAIR
\* ---------------------------------------------------------------------------

\* C27: in every reachable state at most one pending friend request exists
\* between any two users, counting both directions.
C27_OnePendingRequestPerPair ==
    \A a \in Users, b \in Users :
        Cardinality({ r \in DOMAIN requests :
                        /\ requests[r].status = "pending"
                        /\ {requests[r].sender, requests[r].receiver} = {a, b} }) <= 1

\* ---------------------------------------------------------------------------
\* ONE VISIBILITY DECISION FOR GetPost AND GetPosts
\* ---------------------------------------------------------------------------

\* C28: GetPost and GetPosts decide visibility alike: when GetPosts filtered by
\* an author has answered a viewer, each live post of that author is in the
\* listing if and only if GetPost returns that post to the same viewer.
C28_GetPostAgreesWithGetPosts ==
    (pret.op = "GetPosts" /\ pret.code = "OK" /\ pret.filter.author # "") =>
        \A p \in DOMAIN posts :
            (LivePost(p) /\ posts[p].author = pret.filter.author) =>
                (p \in pret.list <=> GetPostVisible(posts[p], pret.user))

\* ---------------------------------------------------------------------------
\* THE VISIBILITY RESOLVER
\* ---------------------------------------------------------------------------

C30_StateTokenAcceptedOnce ==
    /\ \A t \in StateTokens : accepts[t] <= 1
    /\ oret.op = "ValidateStateToken" =>
          LET t == oret.token
          IN /\ oret.valid => (issuedAt[t] # NoTime /\ oclock - issuedAt[t] <= StateTTL)
             /\ (issuedAt[t] = NoTime \/ oret.again \/ oclock - issuedAt[t] > StateTTL)
                    => ~oret.valid
             /\ stateStore[t] = NoTime

====
